---- MODULE Spec2Model ----
(***************************************************************************)
(* A model of the solana-wingman action scripts: the token amount helpers  *)
(* (toTokenAmount / fromTokenAmount), the wallet resolver, the shared      *)
(* connection and the main() of each action script.                        *)
(*                                                                         *)
(* JavaScript numbers are IEEE-754 doubles and BigInts are unbounded, so   *)
(* amounts are modelled with arbitrary-precision naturals (sequences of    *)
(* base-10^4 limbs) and doubles as sign / integer significand / binary     *)
(* exponent, rounded to 53 significant bits as the hardware does.          *)
(***************************************************************************)
EXTENDS Integers, Sequences, FiniteSets, TLC

(***************************************************************************)
(* Arbitrary-precision naturals: little-endian sequences of limbs in base  *)
(* 10^4 without high zero limbs; << >> is 0.  Sums and differences take    *)
(* their carries by look-ahead, products are sums of columns, and powers   *)
(* of two are divided out as powers of five over powers of ten.            *)
(***************************************************************************)
Base == 10 ^ 4

Max(S) == CHOOSE i \in S : \A j \in S : j <= i

Min(S) == CHOOSE i \in S : \A j \in S : i <= j

\* the limb of x at position i, 0 beyond its length
Limb(x, i) == IF i >= 1 /\ i <= Len(x) THEN x[i] ELSE 0

\* x without high zero limbs
BNorm(x) ==
  IF x = <<>> THEN x
  ELSE SubSeq(x, 1, Max({0} \cup {i \in 1..Len(x) : x[i] # 0}))

\* x * Base^n
BShift(x, n) == IF x = <<>> THEN <<>> ELSE [i \in 1..n |-> 0] \o x

BFromInt(n) ==
  BNorm(<<n % Base, (n \div Base) % Base, n \div (Base * Base)>>)

BAdd(x, y) ==
  IF x = <<>> THEN y ELSE IF y = <<>> THEN x ELSE
  LET n == Max({Len(x), Len(y)})
      s(i) == Limb(x, i) + Limb(y, i)
      \* the carry into limb i
      c(i) == IF \E j \in 1..(i - 1) :
                   s(j) >= Base /\ \A k \in (j + 1)..(i - 1) : s(k) = Base - 1
              THEN 1 ELSE 0
  IN  BNorm([i \in 1..(n + 1) |-> (s(i) + c(i)) % Base])

\* x - y for x >= y
BSub(x, y) ==
  IF x = <<>> \/ y = <<>> THEN x ELSE
  LET d(i) == Limb(x, i) - Limb(y, i)
      \* the borrow out of limb i - 1
      b(i) == IF \E j \in 1..(i - 1) :
                   d(j) < 0 /\ \A k \in (j + 1)..(i - 1) : d(k) = 0
              THEN 1 ELSE 0
  IN  BNorm([i \in 1..Len(x) |-> (d(i) - b(i) + Base) % Base])

\* -1, 0 or 1 as x <, =, > y
BCmp(x, y) ==
  IF x = y THEN 0 ELSE
  LET n == Max({Len(x), Len(y)})
      h == Max({0} \cup {i \in 1..n : Limb(x, i) # Limb(y, i)})
  IN  IF h = 0 THEN 0 ELSE IF Limb(x, h) < Limb(y, h) THEN -1 ELSE 1

\* the bignum of per-limb values v[i] < 2^31, split into three rows of limbs
BFromColumns(v) ==
  IF v = <<>> THEN <<>> ELSE
  LET lo == [i \in 1..Len(v) |-> v[i] % Base]
      h0 == [i \in 1..Len(v) |-> (v[i] \div Base) % Base]
      h1 == [i \in 1..Len(v) |-> v[i] \div (Base * Base)]
  IN  BAdd(BAdd(BNorm(lo), BShift(BNorm(h0), 1)), BShift(BNorm(h1), 2))

\* x * c for c <= 2^16
BMulSmall(x, c) == BFromColumns([i \in 1..Len(x) |-> x[i] * c])

\* the sum of x[i] * y[k + 1 - i] for i in lo..hi, by halves
RECURSIVE ColSum(_, _, _, _, _)
ColSum(x, y, k, lo, hi) ==
  IF lo > hi THEN 0
  ELSE IF lo = hi THEN x[lo] * y[k + 1 - lo]
  ELSE ColSum(x, y, k, lo, (lo + hi) \div 2)
         + ColSum(x, y, k, ((lo + hi) \div 2) + 1, hi)

\* x * y for operands of which the shorter has at most 21 limbs
BMul(x, y) ==
  IF x = <<>> \/ y = <<>> THEN <<>> ELSE
  BFromColumns([k \in 1..(Len(x) + Len(y)) |->
                  ColSum(x, y, k, Max({1, k + 1 - Len(y)}), Min({k, Len(x)}))])

BPow10(k) == [i \in 1..(k \div 4) |-> 0] \o <<10 ^ (k % 4)>>

\* x div 10^k and x mod 10^k: a move of decimal digits
BDivPow10(x, k) ==
  IF x = <<>> THEN x ELSE
  LET a == k \div 4
      p == 10 ^ (k % 4)
  IN  BNorm([i \in 1..Len(x) |->
               (Limb(x, i + a) \div p) + (Limb(x, i + a + 1) % p) * (Base \div p)])

BModPow10(x, k) ==
  IF x = <<>> THEN x ELSE
  LET a == k \div 4
      p == 10 ^ (k % 4)
  IN  BNorm([i \in 1..Len(x) |->
               IF i <= a THEN x[i] ELSE IF i = a + 1 THEN x[i] % p ELSE 0])

\* 2^s and 5^s, by halves
RECURSIVE BPow2(_)
BPow2(s) ==
  IF s <= 13 THEN <<2 ^ s>> ELSE BMul(BPow2(s \div 2), BPow2(s - (s \div 2)))

RECURSIVE BPow5(_)
BPow5(s) ==
  IF s <= 5 THEN <<5 ^ s>> ELSE BMul(BPow5(s \div 2), BPow5(s - (s \div 2)))

\* x * 2^s
BMulPow2(x, s) == IF s = 0 THEN x ELSE BMul(x, BPow2(s))

\* x div 2^s, as (x * 5^s) div 10^s
BDivPow2(x, s) == IF s = 0 THEN x ELSE BDivPow10(BMul(x, BPow5(s)), s)

\* x mod 2^s
BModPow2(x, s) == BSub(x, BMulPow2(BDivPow2(x, s), s))

\* number of decimal digits of x
DigitLen(x) ==
  IF x = <<>> THEN 0
  ELSE 4 * (Len(x) - 1) + Min({d \in 1..4 : x[Len(x)] < 10 ^ d})

\* number of significant bits of x: the b with 2^(b-1) <= x < 2^b, looked for
\* in the range the number of decimal digits leaves
BitLen(x) ==
  IF x = <<>> THEN 0
  ELSE LET d == DigitLen(x)
       IN  CHOOSE b \in (((d - 1) * 3321) \div 1000 + 1)..((d * 3322) \div 1000 + 1) :
             BCmp(BPow2(b - 1), x) <= 0 /\ BCmp(x, BPow2(b)) < 0

BIsOdd(x) == x # <<>> /\ x[1] % 2 = 1

\* the quotient limbs of x div y from limb i down, rem carried in, for y with
\* a top limb of at least Base / 2: the estimate from the top limbs is at
\* most 2 too large
RECURSIVE BQuotAt(_, _, _, _)
BQuotAt(x, y, i, rem) ==
  IF i = 0 THEN <<>>
  ELSE LET cur  == BNorm(<<x[i]>> \o rem)
           n    == Len(y)
           qhat == Min({Base - 1, (Limb(cur, n + 1) * Base + Limb(cur, n)) \div y[n]})
           q    == IF BCmp(BMulSmall(y, qhat), cur) <= 0 THEN qhat
                   ELSE IF BCmp(BMulSmall(y, qhat - 1), cur) <= 0 THEN qhat - 1
                   ELSE qhat - 2
           nxt  == BSub(cur, BMulSmall(y, q))
       IN  IF Len(nxt) > n THEN <<>>
           ELSE Append(BQuotAt(x, y, i - 1, nxt), q)

\* <<x div y, x mod y>>, y > 0: long division of both scaled by d
BDivMod(x, y) ==
  LET d  == Base \div (y[Len(y)] + 1)
      xn == BMulSmall(x, d)
      Q  == BNorm(BQuotAt(xn, BMulSmall(y, d), Len(xn), <<>>))
  IN  <<Q, BSub(x, BMul(Q, y))>>

\* the natural written by the decimal digits ds, most significant first:
\* limb j holds the j-th group of four digits from the right
BFromDigits(ds) ==
  LET n == Len(ds)
      D(i) == IF i >= 1 THEN ds[i] ELSE 0
  IN  BNorm([j \in 1..((n + 3) \div 4) |->
               D(n - 4 * j + 4) + 10 * D(n - 4 * j + 3)
                 + 100 * D(n - 4 * j + 2) + 1000 * D(n - 4 * j + 1)])

(***************************************************************************)
(* JavaScript strings: sequences of one-character strings.                 *)
(***************************************************************************)
DigitChars == <<"0", "1", "2", "3", "4", "5", "6", "7", "8", "9">>

DigitChar(d) == DigitChars[d + 1]

DigitsToStr(ds) == [i \in 1..Len(ds) |-> DigitChar(ds[i])]

\* s from its first character that is not "0", keeping a last "0"
StripLeadingZeros(s) ==
  LET nz == {i \in 1..Len(s) : s[i] # "0"}
  IN  IF s = <<>> THEN s
      ELSE IF nz = {} THEN <<"0">>
      ELSE SubSeq(s, CHOOSE i \in nz : \A j \in nz : i <= j, Len(s))

\* the decimal digits of x, four per limb
LimbDigits(x) ==
  [i \in 1..(4 * Len(x)) |->
     LET l == x[Len(x) - ((i - 1) \div 4)]
         p == 3 - ((i - 1) % 4)
     IN  (l \div (10 ^ p)) % 10]

\* BigInt.prototype.toString of a non-negative magnitude
MagToString(x) ==
  IF x = <<>> THEN <<"0">> ELSE StripLeadingZeros(DigitsToStr(LimbDigits(x)))

\* BigInt.prototype.toString
BigIntToString(b) ==
  IF b.neg /\ b.mag # <<>> THEN <<"-">> \o MagToString(b.mag) ELSE MagToString(b.mag)

\* String.prototype.padStart with a one-character filler
padStart(s, n, ch) ==
  IF Len(s) >= n THEN s ELSE [i \in 1..(n - Len(s)) |-> ch] \o s

\* s.replace(/0+$/, "")
StripTrailingZeros(s) ==
  SubSeq(s, 1, Max({0} \cup {i \in 1..Len(s) : s[i] # "0"}))

(***************************************************************************)
(* IEEE-754 binary64 values: [k, neg, m, e] is (-1)^neg * m * 2^e for      *)
(* k = "fin"; k = "nan" and k = "inf" are the special values.  Operations  *)
(* round to nearest, ties to even, at MantissaBits significant bits.  The  *)
(* exponent range is not modelled: the inputs below stay far inside it.    *)
(***************************************************************************)
MantissaBits == 53

NaN == [k |-> "nan", neg |-> FALSE, m |-> <<>>, e |-> 0]
Inf(neg) == [k |-> "inf", neg |-> neg, m |-> <<>>, e |-> 0]
Fin(neg, m, e) == [k |-> "fin", neg |-> neg, m |-> m, e |-> e]

\* the double nearest to m * 2^e (ties to even)
RoundToDouble(neg, m, e) ==
  LET L == BitLen(m) IN
  IF L <= MantissaBits THEN Fin(neg, m, e)
  ELSE LET s    == L - MantissaBits
           q    == BDivPow2(m, s)
           r    == BSub(m, BMulPow2(q, s))
           c    == BCmp(r, BMulPow2(<<1>>, s - 1))
           up   == c > 0 \/ (c = 0 /\ BIsOdd(q))
       IN  Fin(neg, IF up THEN BAdd(q, <<1>>) ELSE q, e + s)

\* the two doubles around m * 2^e, or the value itself when it is a double
DoubleBelow(m, e) ==
  LET L == BitLen(m) IN
  IF L <= MantissaBits THEN Fin(FALSE, m, e)
  ELSE Fin(FALSE, BDivPow2(m, L - MantissaBits), e + (L - MantissaBits))

DoubleAbove(m, e) ==
  LET L == BitLen(m) IN
  IF L <= MantissaBits THEN Fin(FALSE, m, e)
  ELSE LET s == L - MantissaBits
           q == BDivPow2(m, s)
       IN  IF BModPow2(m, s) = <<>> THEN Fin(FALSE, q, e + s)
           ELSE Fin(FALSE, BAdd(q, <<1>>), e + s)

\* a * b on doubles
NumMul(a, b) ==
  IF a.k = "nan" \/ b.k = "nan" THEN NaN
  ELSE IF a.k = "inf" \/ b.k = "inf"
       THEN IF (a.k = "fin" /\ a.m = <<>>) \/ (b.k = "fin" /\ b.m = <<>>)
            THEN NaN ELSE Inf(a.neg # b.neg)
  ELSE RoundToDouble(a.neg # b.neg, BMul(a.m, b.m), a.e + b.e)

\* 10 ** n: exact when 10^n is a double; otherwise the language leaves the
\* result implementation-approximated, and `up` picks between the two
\* doubles around 10^n.
NumPow10(n, up) ==
  IF up THEN DoubleAbove(BPow10(n), 0) ELSE DoubleBelow(BPow10(n), 0)

\* Math.round: the nearest integer, ties toward +Infinity
MathRound(x) ==
  IF x.k # "fin" \/ x.e >= 0 THEN x
  ELSE LET s    == 0 - x.e
           q    == BDivPow2(x.m, s)
           r2   == BMulSmall(BSub(x.m, BMulPow2(q, s)), 2)
           c    == BCmp(r2, BMulPow2(<<1>>, s))
           up   == IF x.neg THEN c > 0 ELSE c >= 0
       IN  Fin(x.neg, IF up THEN BAdd(q, <<1>>) ELSE q, 0)

\* BigInt(number): a RangeError for NaN, an infinity or a non-integer
BigIntOf(x) ==
  IF x.k # "fin" THEN [ok |-> FALSE, err |-> "RangeError"]
  ELSE IF x.e < 0 /\ BModPow2(x.m, 0 - x.e) # <<>>
       THEN [ok |-> FALSE, err |-> "RangeError"]
  ELSE LET mag == IF x.e >= 0 THEN BMulPow2(x.m, x.e) ELSE BDivPow2(x.m, 0 - x.e)
       IN  [ok |-> TRUE, neg |-> x.neg /\ mag # <<>>, mag |-> mag]

(***************************************************************************)
(* Amount literals as typed on the command line: [k, neg, ip, fp] with ip  *)
(* and fp the digits before and after the point, k = "dec" for a decimal   *)
(* literal, "inf" for the text Infinity, "text" for anything else.         *)
(***************************************************************************)
Lit(neg, ip, fp) == [k |-> "dec", neg |-> neg, ip |-> ip, fp |-> fp]

\* parseFloat(amountStr): the double nearest to the literal's value
parseFloat(s) ==
  IF s.k = "text" THEN NaN
  ELSE IF s.k = "inf" THEN Inf(s.neg)
  ELSE LET M == BFromDigits(s.ip \o s.fp)
           n == Len(s.fp)
           t == 64 + 4 * n
           X == BMulPow2(M, t)
           qr == <<BDivPow10(X, n), BModPow10(X, n)>>
           sticky == IF qr[2] = <<>> THEN <<>> ELSE <<1>>
       IN  IF M = <<>> THEN Fin(s.neg, <<>>, 0)
           ELSE IF n = 0 THEN RoundToDouble(s.neg, M, 0)
           ELSE RoundToDouble(s.neg, BAdd(BMulSmall(qr[1], 2), sticky), 0 - t - 1)

(***************************************************************************)
(* token-helpers                                                           *)
(***************************************************************************)
\* BigInt(Math.round(uiAmount * 10 ** decimals))
toTokenAmount(uiAmount, decimals, up) ==
  BigIntOf(MathRound(NumMul(uiAmount, NumPow10(decimals, up))))

fromTokenAmount(raw, decimals, up) ==
  LET divisor == BigIntOf(NumPow10(decimals, up)).mag
      qr      == BDivMod(raw.mag, divisor)
      whole   == [neg |-> raw.neg, mag |-> qr[1]]
      frac    == [neg |-> raw.neg, mag |-> qr[2]]
      fracStr == StripTrailingZeros(padStart(BigIntToString(frac), decimals, "0"))
  IN  IF fracStr # <<>> THEN BigIntToString(whole) \o <<".">> \o fracStr
      ELSE BigIntToString(whole)


(***************************************************************************)
(* State.                                                                  *)
(*   amountStr, decimals, powUp   inputs of the amount helpers             *)
(*   amount, rawAmount, shown     parseFloat's, toTokenAmount's and        *)
(*                                fromTokenAmount's results                *)
(*   cstep                        position in the helper calls             *)
(***************************************************************************)
VARIABLES amountStr, decimals, powUp, amount, rawAmount, shown, cstep

codecVars == <<amountStr, decimals, powUp, amount, rawAmount, shown, cstep>>

None == [k |-> "none"]

\* amount literals tried: 1.5 0 1 0.10 1.1 2.5 100 0.07 1.005 and
\* 9007199254740993 (2^53 + 1), negative ones, and text that is no number
AmountLiterals ==
  { Lit(FALSE, <<1>>, <<5>>), Lit(FALSE, <<0>>, <<>>), Lit(FALSE, <<1>>, <<>>),
    Lit(FALSE, <<0>>, <<1, 0>>), Lit(FALSE, <<1>>, <<1>>), Lit(FALSE, <<2>>, <<5>>),
    Lit(FALSE, <<1, 0, 0>>, <<>>), Lit(FALSE, <<0>>, <<0, 7>>),
    Lit(FALSE, <<1>>, <<0, 0, 5>>),
    Lit(FALSE, <<9, 0, 0, 7, 1, 9, 9, 2, 5, 4, 7, 4, 0, 9, 9, 3>>, <<>>),
    Lit(TRUE, <<1>>, <<5>>), Lit(TRUE, <<0>>, <<4>>), Lit(TRUE, <<2>>, <<5>>),
    [k |-> "text", neg |-> FALSE, ip |-> <<>>, fp |-> <<>>],
    [k |-> "inf", neg |-> FALSE, ip |-> <<>>, fp |-> <<>>],
    [k |-> "inf", neg |-> TRUE, ip |-> <<>>, fp |-> <<>>] }

\* decimal precisions tried (a mint's decimals is an unsigned byte)
DecimalsTried == {0, 2, 3, 9, 18, 23}

\* base-unit amounts formatted directly: 0 5 1050 1500000000 10^18+1 10^23
RawTried ==
  { <<>>, BFromInt(5), BFromInt(1050), BFromInt(1500000000),
    BAdd(BPow10(18), <<1>>), BPow10(23) }

(***************************************************************************)
(* State of one run of a script.                                           *)
(*   script               which script runs                                *)
(*   SOLANA_NETWORK, SOLANA_RPC_URL, WALLET_PRIVATE_KEY                    *)
(*                        the environment: "unset", "empty" or a value     *)
(*   keyFile              the file at WALLET_PATH: "missing", "valid" or   *)
(*                        "corrupt"                                        *)
(*   keyText              the characters of a key file that holds no key   *)
(*   jsonErrorStyle       how the runtime words a JSON syntax error:       *)
(*                        "position" (V8 up to 10) or "quoted" (V8 11 on)  *)
(*   soBinary, programKeypair                                              *)
(*                        the files the deploy script is pointed at:       *)
(*                        "missing", "present"; "missing", "valid",        *)
(*                        "corrupt"                                        *)
(*   argc, addrOk         number of positional arguments given, and        *)
(*                        whether the addresses among them decode          *)
(*   mintAuthority        who the authority of the mint is: "payer" or     *)
(*                        "other"                                          *)
(*   slippageStr          the characters of the slippage argument, none    *)
(*                        when it is not given                             *)
(*   pc                   index of the next step in Program(script)        *)
(*   _connection          the module-level connection: null, or the place  *)
(*                        in `connections` of the object it refers to      *)
(*   connections          the Connection objects constructed so far        *)
(*   returned             what each call of getConnection and              *)
(*                        createConnection returned                        *)
(*   http                 the requests made with fetch and their responses *)
(*   held                 the connection each task of the process got from *)
(*                        getConnection, null before its call returns      *)
(*   payer                the resolved identity, "unresolved" before       *)
(*   trace                what the run printed and asked of the network    *)
(*   exitCode             "running", "0" or "1"                            *)
(*   lastErr              the error caught by main().catch                 *)
(*   errMessage           the err.message main().catch printed             *)
(*   tx                   the transaction of the run: its status, the last *)
(*                        valid height of its blockhash and who chose it,  *)
(*                        its execution error, its instructions and who    *)
(*                        has signed it                                    *)
(*   height, waited       block height since the start of the run, and     *)
(*                        the time spent awaiting confirmation             *)
(*   watchValid           last valid height the confirmation watches       *)
(***************************************************************************)
VARIABLES script, SOLANA_NETWORK, SOLANA_RPC_URL, WALLET_PRIVATE_KEY, keyFile,
          keyText, jsonErrorStyle, soBinary, programKeypair, argc, addrOk,
          mintAuthority, slippageStr,
          pc, _connection, payer, trace, exitCode, lastErr, errMessage, tx,
          height, waited, watchValid, connections, returned, http, held

envVars ==
  <<script, SOLANA_NETWORK, SOLANA_RPC_URL, WALLET_PRIVATE_KEY, keyFile,
    keyText, jsonErrorStyle, soBinary, programKeypair, argc, addrOk,
    mintAuthority, slippageStr>>

runVars == <<pc, _connection, payer, trace, exitCode, lastErr, errMessage>>

chainVars == <<tx, height, waited, watchValid>>

ioVars == <<connections, returned, http, held>>

scriptVars == <<envVars, runVars, chainVars, ioVars>>

vars == <<codecVars, scriptVars>>

\* let _connection: Connection | null = null
null == 0

NoTx ==
  [status |-> "none", lastValid |-> 0, anchorBy |-> "none", err |-> "none",
   ixs |-> <<>>, signers |-> {}]

\* no script runs: the helpers are called on their own
NoScript ==
  /\ script = "none"
  /\ SOLANA_NETWORK = "unset"
  /\ SOLANA_RPC_URL = "unset"
  /\ WALLET_PRIVATE_KEY = "unset"
  /\ keyFile = "missing"
  /\ keyText = <<>>
  /\ jsonErrorStyle = "position"
  /\ soBinary = "missing"
  /\ programKeypair = "missing"
  /\ argc = 0
  /\ addrOk = TRUE
  /\ mintAuthority = "payer"
  /\ slippageStr = <<>>
  /\ pc = 0
  /\ _connection = null
  /\ connections = <<>>
  /\ returned = <<>>
  /\ http = <<>>
  /\ held = <<>>
  /\ payer = "unresolved"
  /\ trace = <<>>
  /\ exitCode = "running"
  /\ lastErr = "none"
  /\ errMessage = "none"
  /\ tx = NoTx
  /\ height = 0
  /\ waited = 0
  /\ watchValid = 0

InitCodec ==
  /\ NoScript
  /\ decimals \in DecimalsTried
  /\ powUp \in BOOLEAN
  /\ amount = None
  /\ shown = <<>>
  /\ \/ /\ amountStr \in AmountLiterals
        /\ rawAmount = None
        /\ cstep = "start"
     \/ /\ amountStr = None
        /\ rawAmount \in {[ok |-> TRUE, neg |-> FALSE, mag |-> r] : r \in RawTried}
        /\ cstep = "converted"

\* const amount = parseFloat(amountStr)
CallParseFloat ==
  /\ cstep = "start"
  /\ amount' = parseFloat(amountStr)
  /\ cstep' = "parsed"
  /\ UNCHANGED <<amountStr, decimals, powUp, rawAmount, shown, scriptVars>>

\* const rawAmount = toTokenAmount(amount, mintInfo.decimals): a value or a throw
CallToTokenAmount ==
  /\ cstep = "parsed"
  /\ rawAmount' = toTokenAmount(amount, decimals, powUp)
  /\ cstep' = "converted"
  /\ UNCHANGED <<amountStr, decimals, powUp, amount, shown, scriptVars>>

CallFromTokenAmount ==
  /\ cstep = "converted"
  /\ rawAmount.ok
  /\ shown' = fromTokenAmount(rawAmount, decimals, powUp)
  /\ cstep' = "formatted"
  /\ UNCHANGED <<amountStr, decimals, powUp, amount, rawAmount, scriptVars>>

NextCodec == CallParseFloat \/ CallToTokenAmount \/ CallFromTokenAmount

SpecCodec == InitCodec /\ [][NextCodec]_vars

(***************************************************************************)
(* config                                                                  *)
(***************************************************************************)
\* process.env.SOLANA_NETWORK || "mainnet-beta"
NETWORK ==
  IF SOLANA_NETWORK \in {"unset", "empty"} THEN "mainnet-beta" ELSE SOLANA_NETWORK

\* clusterApiUrl(cluster): the public endpoint of the cluster
clusterApiUrl(cluster) ==
  IF cluster = "mainnet-beta" THEN "https://api.mainnet-beta.solana.com/"
  ELSE "https://api." \o cluster \o ".solana.com"

\* process.env.SOLANA_RPC_URL || clusterApiUrl(NETWORK)
RPC_URL ==
  IF SOLANA_RPC_URL \in {"unset", "empty"} THEN clusterApiUrl(NETWORK)
  ELSE SOLANA_RPC_URL

COMMITMENT == "confirmed"

JUPITER_API_URL == "https://quote-api.jup.ag/v6"

(***************************************************************************)
(* connection: a Connection object is what it was constructed from; a      *)
(* reference to it is its place in `connections`.  A call is logged in     *)
(* `returned` with the reference it gave back and whether it constructed   *)
(* the object.                                                             *)
(***************************************************************************)
\* a call that constructs a Connection whatever _connection holds
getConnectionAlwaysNew ==
  /\ connections' = Append(connections, [rpcUrl |-> RPC_URL, commitment |-> COMMITMENT])
  /\ _connection' = Len(connections) + 1
  /\ returned' = Append(returned, [fn |-> "getConnection", ref |-> _connection',
                                   fresh |-> TRUE])

\* if (!_connection) { _connection = new Connection(RPC_URL, COMMITMENT); }
\* return _connection
getConnection ==
  /\ IF _connection = null
     THEN /\ connections' = Append(connections, [rpcUrl |-> RPC_URL, commitment |-> COMMITMENT])
          /\ _connection' = Len(connections) + 1
     ELSE UNCHANGED <<connections, _connection>>
  /\ returned' = Append(returned, [fn |-> "getConnection", ref |-> _connection',
                                   fresh |-> _connection = null])

\* the new connection also kept as the shared one
createConnectionKept(url, commitment) ==
  /\ connections' = Append(connections, [rpcUrl |-> url, commitment |-> commitment])
  /\ returned' = Append(returned, [fn |-> "createConnection",
                                   ref |-> Len(connections) + 1, fresh |-> TRUE])
  /\ _connection' = Len(connections) + 1

\* return new Connection(url, commitment): _connection is left alone
createConnection(url, commitment) ==
  /\ connections' = Append(connections, [rpcUrl |-> url, commitment |-> commitment])
  /\ returned' = Append(returned, [fn |-> "createConnection",
                                   ref |-> Len(connections) + 1, fresh |-> TRUE])
  /\ UNCHANGED _connection

(***************************************************************************)
(* wallet: a result is [ok, id, err, read], read telling whether the key   *)
(* file was read.                                                          *)
(***************************************************************************)
WALLET_PATH == "~/.config/solana/id.json"

\* contents of a key file that holds no key: two texts that are no JSON and
\* a JSON array of one byte (an empty file is <<>>)
UndecodableTexts ==
  { <<"K", "x", "9">>, <<"Q", "z", "7">>, <<"[", "1", "]">> }

JsonErrorStyles == {"position", "quoted"}

\* the characters as one string
RECURSIVE Join(_)
Join(chars) == IF chars = <<>> THEN "" ELSE Head(chars) \o Join(Tail(chars))

\* the message of the SyntaxError JSON.parse(raw) throws at the first
\* character of raw: it names the character, and in newer runtimes quotes
\* the text
jsonSyntaxMessage(raw, style) ==
  IF raw = <<>> THEN "Unexpected end of JSON input"
  ELSE IF style = "position"
  THEN "Unexpected token " \o Head(raw) \o " in JSON at position 0"
  ELSE "Unexpected token '" \o Head(raw) \o "', \"" \o Join(raw)
         \o "\" is not valid JSON"

\* the message of what loadKeypairFromFile throws on a file holding raw
fileErrorMessage(file, raw, style) ==
  CASE file = "missing" ->
         "ENOENT: no such file or directory, open '" \o WALLET_PATH \o "'"
    [] file = "corrupt" ->
         IF raw # <<>> /\ Head(raw) = "[" THEN "bad secret key size"
         ELSE jsonSyntaxMessage(raw, style)
    [] OTHER -> "none"

\* fs.readFileSync throws on a missing file; JSON.parse, Uint8Array.from and
\* Keypair.fromSecretKey throw on content that is no secret key
loadKeypairFromFile(file) ==
  IF file = "missing"
  THEN [ok |-> FALSE, id |-> "unresolved", err |-> "IdentityNotFound", read |-> TRUE,
        msg |-> fileErrorMessage(file, keyText, jsonErrorStyle)]
  ELSE IF file = "corrupt"
  THEN [ok |-> FALSE, id |-> "unresolved", err |-> "IdentityCorrupt", read |-> TRUE,
        msg |-> fileErrorMessage(file, keyText, jsonErrorStyle)]
  ELSE [ok |-> TRUE, id |-> "fileIdentity", err |-> "none", read |-> TRUE,
        msg |-> "none"]

\* bs58.decode and Keypair.fromSecretKey throw on a string that is no secret key
loadKeypairFromBase58(base58Key) ==
  IF base58Key = "valid"
  THEN [ok |-> TRUE, id |-> "envIdentity", err |-> "none", read |-> FALSE,
        msg |-> "none"]
  ELSE [ok |-> FALSE, id |-> "unresolved", err |-> "IdentityCorrupt", read |-> FALSE,
        msg |-> "Non-base58 character"]

\* the key file read before and instead of the environment secret
resolveKeypairFileFirst(envKey, file) ==
  IF file # "missing" THEN loadKeypairFromFile(file)
  ELSE loadKeypairFromBase58(envKey)

\* if (envKey) return loadKeypairFromBase58(envKey); return loadKeypairFromFile()
resolveKeypair(envKey, file) ==
  IF envKey \notin {"unset", "empty"} THEN loadKeypairFromBase58(envKey)
  ELSE loadKeypairFromFile(file)

(***************************************************************************)
(* The scripts, each the sequence of its steps.  A step that throws is     *)
(* caught by main().catch, which prints the failure and exits with 1.      *)
(***************************************************************************)
\* the network check moved behind the connection and the address
AirdropProgramLateCheck ==
  << "getConnection", "parseAmount", "resolveAddress", "checkNetwork",
     "printSummary", "requestAirdrop", "getLatestBlockhash",
     "confirmWithAnchor", "getBalance", "printSuccess" >>

AirdropProgram ==
  << "checkNetwork", "getConnection", "parseAmount", "resolveAddress",
     "printSummary", "requestAirdrop", "getLatestBlockhash",
     "confirmWithAnchor", "getBalance", "printSuccess" >>

TransferSolProgram ==
  << "checkArgs", "getConnection", "resolveKeypair", "newPublicKey",
     "parseAmount", "printSummary", "buildTransfer", "getLatestBlockhash",
     "sendTransaction", "awaitConfirmation", "printSuccess" >>

CreateTokenAccountProgram ==
  << "checkArgs", "getConnection", "resolveKeypair", "newPublicKey",
     "printSummary", "ensureATA", "printSuccess" >>

\* the mint read before the identity is resolved
TransferTokenProgramMintFirst ==
  << "checkArgs", "getConnection", "getMint", "resolveKeypair", "newPublicKey",
     "parseAmount", "toTokenAmount", "ensureATA", "printSummary",
     "buildTransfer", "getLatestBlockhash", "sendTransaction",
     "awaitConfirmation", "printSuccess" >>

TransferTokenProgram ==
  << "checkArgs", "getConnection", "resolveKeypair", "newPublicKey",
     "parseAmount", "getMint", "toTokenAmount", "ensureATA", "printSummary",
     "buildTransfer", "getLatestBlockhash", "sendTransaction",
     "awaitConfirmation", "printSuccess" >>

MintTokensProgram ==
  << "checkArgs", "getConnection", "resolveKeypair", "newPublicKey",
     "parseAmount", "getMint", "toTokenAmount", "ensureATA", "printSummary",
     "buildTransfer", "getLatestBlockhash", "sendTransaction",
     "awaitConfirmation", "printSuccess" >>

CreateTokenProgram ==
  << "getConnection", "resolveKeypair", "printSummary", "getRentExemption",
     "getLatestBlockhash", "sendTransaction", "awaitConfirmation",
     "printSuccess" >>

\* the usage check made after the connection and the identity
SwapProgramLateUsage ==
  << "getConnection", "resolveKeypair", "checkArgs", "newPublicKey",
     "parseAmount", "getMint", "toTokenAmount", "printSummary", "fetchQuote",
     "fetchSwap", "deserializeSign", "sendRawTransaction", "confirmLegacy",
     "printSuccess" >>

SwapProgram ==
  << "checkArgs", "getConnection", "resolveKeypair", "newPublicKey",
     "parseAmount", "getMint", "toTokenAmount", "printSummary", "fetchQuote",
     "fetchSwap", "deserializeSign", "sendRawTransaction", "confirmLegacy",
     "printSuccess" >>

\* the identity resolved whether or not an address is given
CheckBalanceProgramWithWallet ==
  << "getConnection", "resolveKeypair", "resolveAddress", "printSummary",
     "getBalance", "getTokenAccounts" >>

CheckBalanceProgram ==
  << "getConnection", "resolveAddress", "printSummary", "getBalance",
     "getTokenAccounts" >>

\* the utility run without a look at the binary
DeployProgramUnchecked ==
  << "checkArgs", "readProgramKeypair", "printSummary", "execSync",
     "printSuccess" >>

DeployProgram ==
  << "checkArgs", "checkBinary", "readProgramKeypair", "printSummary",
     "execSync", "printSuccess" >>

FetchTxProgram ==
  << "checkArgs", "getConnection", "printSummary", "getParsedTransaction" >>

Scripts ==
  { "airdrop", "transferSol", "createTokenAccount", "transferToken",
    "mintTokens", "createToken", "swap", "checkBalance", "deploy", "fetchTx" }

Program(s) ==
  CASE s = "airdrop" -> AirdropProgram
    [] s = "transferSol" -> TransferSolProgram
    [] s = "createTokenAccount" -> CreateTokenAccountProgram
    [] s = "transferToken" -> TransferTokenProgram
    [] s = "mintTokens" -> MintTokensProgram
    [] s = "createToken" -> CreateTokenProgram
    [] s = "swap" -> SwapProgram
    [] s = "checkBalance" -> CheckBalanceProgram
    [] s = "deploy" -> DeployProgram
    [] s = "fetchTx" -> FetchTxProgram
    [] OTHER -> <<>>

\* the instructions of the transaction a script sends: the transfer of
\* transfer-sol, those built by transfer(), mintTo() and createMint() of
\* spl-token, by the faucet and by the aggregator
Instructions(s) ==
  CASE s \in {"transferSol", "airdrop"} -> <<"SystemProgram.transfer">>
    [] s = "transferToken" -> <<"Token.transfer">>
    [] s = "mintTokens" -> <<"Token.mintTo">>
    [] s = "createToken" -> <<"SystemProgram.createAccount", "Token.initializeMint2">>
    [] s = "swap" -> <<"ComputeBudget.setComputeUnitLimit", "Jupiter.route">>
    [] OTHER -> <<>>

\* the signatures the transaction of a script must carry: the fee payer's,
\* for createMint also that of the new mint account, and the faucet's on the
\* transaction the faucet makes
RequiredSigners(s) ==
  CASE s = "createToken" -> {"payer", "mint"}
    [] s = "airdrop" -> {"faucet"}
    [] OTHER -> {"payer"}

\* the keypairs a script signs with: [payer] of sendAndConfirmTransaction and
\* of tx.sign, the payer as owner or authority in transfer() and mintTo(),
\* and [payer, keypair] inside createMint
Signers(s) == IF s = "createToken" THEN {"payer", "mint"} ELSE {"payer"}

\* the positional arguments a script cannot do without
RequiredArgs(s) ==
  CASE s \in {"swap", "transferToken", "mintTokens"} -> 3
    [] s \in {"transferSol", "deploy"} -> 2
    [] s \in {"createTokenAccount", "fetchTx"} -> 1
    [] OTHER -> 0

\* the position of the optional address argument of airdrop and check-balance
AddressArg(s) == IF s = "airdrop" THEN 2 ELSE 1

\* the most positional arguments any script reads
MaxArgs == 4

\* the step about to run
Step ==
  IF exitCode = "running" /\ pc \in 1..Len(Program(script))
  THEN Program(script)[pc] ELSE "none"

Ev(op) == [op |-> op, err |-> "none"]

\* the calls that reach the network
NetworkOps ==
  { "getMint", "getAccountInfo", "getRentExemption", "getLatestBlockhash",
    "sendCreateATA", "sendTransaction", "sendRawTransaction", "requestAirdrop",
    "confirmTransaction", "getBalance", "getTokenAccounts", "fetchQuote",
    "fetchSwap", "getParsedTransaction" }

\* the calls that hand a signed transaction of the run to the network
SendOps == {"sendTransaction", "sendRawTransaction"}

\* Retry up to 3 times on transient failures
MaxAttempts == 3

\* error classes of the retry rules
Deterministic ==
  {"InsufficientFunds", "AccountNotFound", "MalformedInstruction", "CustomProgramError"}

Transient == {"BlockheightExceeded", "ConfirmTimeout", "Timeout", "RateLimited"}

\* err.message of a caught error: the errors of the network and of the
\* arguments are named by their message
Message(err) ==
  IF err \in {"IdentityNotFound", "IdentityCorrupt"}
  THEN resolveKeypair(WALLET_PRIVATE_KEY, keyFile).msg ELSE err

\* the step went through: what it did is logged and the next step is due
Done(evs) ==
  /\ trace' = trace \o evs
  /\ pc' = pc + 1
  /\ UNCHANGED <<exitCode, lastErr, errMessage>>

\* a failed send answered by sending again
CatchResending(evs, err) ==
  /\ trace' = trace \o evs \o <<[op |-> "printFailure", err |-> err]>>
  /\ lastErr' = err
  /\ errMessage' = Message(err)
  /\ IF Step \in SendOps
     THEN UNCHANGED <<pc, exitCode>>
     ELSE exitCode' = "1" /\ pc' = pc

\* main().catch((err) => { console.error("... failed:", err.message);
\* process.exit(1); }) after a step that did evs and threw err
Catch(evs, err) ==
  /\ trace' = trace \o evs \o <<[op |-> "printFailure", err |-> err]>>
  /\ lastErr' = err
  /\ errMessage' = Message(err)
  /\ exitCode' = "1"
  /\ pc' = pc

\* process.exit(1) after printing evs
Exit1(evs) ==
  /\ trace' = trace \o evs
  /\ exitCode' = "1"
  /\ UNCHANGED <<pc, lastErr, errMessage>>

(***************************************************************************)
(* Time and the network.  A blockhash fetched at some height is valid for  *)
(* Window more blocks; the timeout of a confirmation without a blockhash   *)
(* is TimeoutTicks blocks; MaxDelay bounds the blocks that pass between    *)
(* an airdrop request and the fetch that follows it.                       *)
(***************************************************************************)
Window == 2

TimeoutTicks == 3

MaxDelay == 2

\* decimals of the mints read
MintDecimals == {6, 9}

\* amounts given to the scripts: 1.5, -1.5 and text that is no number
ScriptAmounts ==
  { Lit(FALSE, <<1>>, <<5>>), Lit(TRUE, <<1>>, <<5>>),
    [k |-> "text", neg |-> FALSE, ip |-> <<>>, fp |-> <<>>] }

\* what a send is refused with, by the preflight simulation or the transport
SendErrors ==
  {"InsufficientFunds", "AccountNotFound", "MalformedInstruction", "Timeout", "RateLimited"}

\* mintTo(connection, payer, mint, ata.address, payer, rawAmount): the payer
\* signs as the mint authority, and the token program accepts the
\* instruction only when the payer is the authority of the mint
AuthorityHolds == script = "mintTokens" => mintAuthority = "payer"

\* const LAMPORTS_PER_SOL = 1000000000
LAMPORTS_PER_SOL == DoubleBelow(BPow10(9), 0)

\* the amount of the instruction a script builds: lamports =
\* Math.round(parseFloat(amountStr) * LAMPORTS_PER_SOL), which
\* SystemProgram.transfer turns into a BigInt, or the rawAmount handed to
\* transfer() and mintTo()
InstructionAmount ==
  IF script = "transferSol"
  THEN BigIntOf(MathRound(NumMul(amount, LAMPORTS_PER_SOL)))
  ELSE rawAmount

\* the instruction carries an amount below zero, which its unsigned 64-bit
\* field holds as a number near 2^64
AmountWrapped ==
  /\ script \in {"transferSol", "transferToken", "mintTokens"}
  /\ InstructionAmount.ok
  /\ InstructionAmount.neg

\* what the simulation of the transaction fails with, when it must fail: the
\* token program rejects a mint-to not signed by the mint authority, and no
\* account holds an amount near 2^64
SimulationError ==
  CASE ~AuthorityHolds -> "CustomProgramError"
    [] AmountWrapped /\ script = "mintTokens" -> "CustomProgramError"
    [] AmountWrapped -> "InsufficientFunds"
    [] OTHER -> "none"

\* what the send of this run can be refused with
SendRefusals ==
  IF SimulationError = "none" THEN SendErrors
  ELSE {SimulationError, "Timeout", "RateLimited"}

\* slippage arguments tried: 100, 0.5 and text that is no number
SlippageTexts == {<<"1", "0", "0">>, <<"0", ".", "5">>, <<"l", "o", "w">>}

\* estimated output amounts of a quote, and bodies of non-OK responses
OutAmounts == {"outAmount1", "outAmount2"}

ErrorBodies == {"Could not find any route", "Too Many Requests"}

\* what a landed transaction can fail with
ExecErrors == {"InsufficientFunds", "CustomProgramError"}

ConfirmSteps == {"awaitConfirmation", "confirmWithAnchor", "confirmLegacy"}

\* the confirmation strategy gives up: the watched blockhash is past its last
\* valid height, or the timeout has run out
DeadlineReached ==
  CASE Step = "confirmLegacy" -> waited >= TimeoutTicks
    [] Step \in {"awaitConfirmation", "confirmWithAnchor"} -> height > watchValid
    [] OTHER -> FALSE

Init ==
  /\ script \in Scripts
  /\ SOLANA_NETWORK \in {"unset", "devnet", "testnet", "mainnet-beta"}
  /\ SOLANA_RPC_URL = "unset"
  /\ WALLET_PRIVATE_KEY \in {"unset", "empty", "valid", "corrupt"}
  /\ keyFile \in {"missing", "valid", "corrupt"}
  /\ keyText \in IF keyFile = "corrupt" /\ WALLET_PRIVATE_KEY \in {"unset", "empty"}
                 THEN UndecodableTexts ELSE {<<>>}
  /\ jsonErrorStyle \in IF keyFile = "corrupt" /\ WALLET_PRIVATE_KEY \in {"unset", "empty"}
                        THEN JsonErrorStyles ELSE {"position"}
  /\ soBinary \in IF script = "deploy" THEN {"missing", "present"} ELSE {"missing"}
  /\ programKeypair \in IF script = "deploy" THEN {"missing", "valid", "corrupt"}
                         ELSE {"missing"}
  /\ argc \in 0..MaxArgs
  /\ addrOk \in BOOLEAN
  /\ mintAuthority \in IF script = "mintTokens" THEN {"payer", "other"} ELSE {"payer"}
  /\ slippageStr \in IF script = "swap" /\ argc >= MaxArgs
                     THEN SlippageTexts ELSE {<<>>}
  /\ amountStr \in IF script \in {"airdrop", "transferSol", "transferToken", "mintTokens", "swap"}
                   THEN ScriptAmounts ELSE {None}
  /\ pc = 1
  /\ _connection = null
  /\ connections = <<>>
  /\ returned = <<>>
  /\ http = <<>>
  /\ held = <<>>
  /\ payer = "unresolved"
  /\ trace = <<>>
  /\ exitCode = "running"
  /\ lastErr = "none"
  /\ errMessage = "none"
  /\ tx = NoTx
  /\ height = 0
  /\ waited = 0
  /\ watchValid = 0
  /\ decimals = 0
  /\ powUp = FALSE
  /\ amount = None
  /\ rawAmount = None
  /\ shown = <<>>
  /\ cstep = "script"

\* if (NETWORK === "mainnet-beta") { console.error(...); process.exit(1); }
CheckNetwork ==
  /\ Step = "checkNetwork"
  /\ IF NETWORK = "mainnet-beta" THEN Exit1(<<Ev("printError")>>) ELSE Done(<<>>)
  /\ UNCHANGED <<codecVars, envVars, ioVars, chainVars, _connection, payer>>

\* if (!a || !b ...) { console.error("Usage: ..."); process.exit(1); }
CheckArgs ==
  /\ Step = "checkArgs"
  /\ IF argc < RequiredArgs(script) THEN Exit1(<<Ev("printUsage")>>) ELSE Done(<<>>)
  /\ UNCHANGED <<codecVars, envVars, ioVars, chainVars, _connection, payer>>

\* const connection = getConnection()
GetConnection ==
  /\ Step = "getConnection"
  /\ getConnection
  /\ Done(<<>>)
  /\ UNCHANGED <<codecVars, envVars, chainVars, payer, http, held>>

\* the identity taken from resolveKeypair(), or its throw caught
UseKeypair ==
  LET r   == resolveKeypair(WALLET_PRIVATE_KEY, keyFile)
      evs == IF r.read THEN <<Ev("readKeyFile")>> ELSE <<>>
  IN  IF r.ok THEN payer' = r.id /\ Done(evs)
      ELSE Catch(evs, r.err) /\ UNCHANGED payer

\* const payer = resolveKeypair()
ResolveKeypair ==
  /\ Step = "resolveKeypair"
  /\ UseKeypair
  /\ UNCHANGED <<codecVars, envVars, ioVars, chainVars, _connection>>

\* address = addressStr ? new PublicKey(addressStr) : resolveKeypair().publicKey
ResolveAddress ==
  /\ Step = "resolveAddress"
  /\ IF argc >= AddressArg(script)
     THEN /\ IF addrOk THEN Done(<<>>) ELSE Catch(<<>>, "InvalidPublicKey")
          /\ UNCHANGED payer
     ELSE UseKeypair
  /\ UNCHANGED <<codecVars, envVars, ioVars, chainVars, _connection>>

\* new PublicKey(str) of the address arguments: throws on a string that is none
NewPublicKey ==
  /\ Step = "newPublicKey"
  /\ IF addrOk THEN Done(<<>>) ELSE Catch(<<>>, "InvalidPublicKey")
  /\ UNCHANGED <<codecVars, envVars, ioVars, chainVars, _connection, payer>>

\* parseFloat(amountStr); airdrop: parseFloat(process.argv[2] || "2")
ParseAmount ==
  /\ Step = "parseAmount"
  /\ amount' = parseFloat(IF script = "airdrop" /\ argc < 1
                          THEN Lit(FALSE, <<2>>, <<>>) ELSE amountStr)
  /\ Done(<<>>)
  /\ UNCHANGED <<amountStr, decimals, powUp, rawAmount, shown, cstep>>
  /\ UNCHANGED <<envVars, ioVars, chainVars, _connection, payer>>

\* nine decimals taken for granted, the mint not read
GetMintAssumed ==
  /\ Step = "getMint"
  /\ decimals' = 9
  /\ Done(<<>>)
  /\ UNCHANGED <<amountStr, powUp, amount, rawAmount, shown, cstep>>
  /\ UNCHANGED <<envVars, ioVars, chainVars, _connection, payer>>

\* const mintInfo = await getMint(connection, mint)
GetMint ==
  /\ Step = "getMint"
  /\ \/ \E d \in MintDecimals : decimals' = d /\ Done(<<Ev("getMint")>>)
     \/ \E e \in {"AccountNotFound", "Timeout"} :
          Catch(<<Ev("getMint")>>, e) /\ UNCHANGED decimals
  /\ UNCHANGED <<amountStr, powUp, amount, rawAmount, shown, cstep>>
  /\ UNCHANGED <<envVars, ioVars, chainVars, _connection, payer>>

\* const rawAmount = toTokenAmount(amount, mintInfo.decimals)
ToTokenAmount ==
  /\ Step = "toTokenAmount"
  /\ rawAmount' = toTokenAmount(amount, decimals, powUp)
  /\ IF rawAmount'.ok THEN Done(<<>>) ELSE Catch(<<>>, "RangeError")
  /\ UNCHANGED <<amountStr, decimals, powUp, amount, shown, cstep>>
  /\ UNCHANGED <<envVars, ioVars, chainVars, _connection, payer>>

\* the console.log lines that say what is about to be done
PrintSummary ==
  /\ Step = "printSummary"
  /\ Done(<<Ev("printSummary")>>)
  /\ UNCHANGED <<codecVars, envVars, ioVars, chainVars, _connection, payer>>

\* getOrCreateAssociatedTokenAccount: the account is read, and created by a
\* transaction of its own when it is not there
EnsureATA ==
  /\ Step = "ensureATA"
  /\ \/ Done(<<Ev("getAccountInfo")>>)
     \/ Done(<<Ev("getAccountInfo"), Ev("getLatestBlockhash"),
               Ev("sendCreateATA"), Ev("confirmTransaction"), Ev("getAccountInfo")>>)
     \/ Catch(<<Ev("getAccountInfo")>>, "Timeout")
  /\ UNCHANGED <<codecVars, envVars, ioVars, chainVars, _connection, payer>>

\* createMint: getMinimumBalanceForRentExemptMint
GetRentExemption ==
  /\ Step = "getRentExemption"
  /\ \/ Done(<<Ev("getRentExemption")>>)
     \/ Catch(<<Ev("getRentExemption")>>, "Timeout")
  /\ UNCHANGED <<codecVars, envVars, ioVars, chainVars, _connection, payer>>

\* SystemProgram.transfer({fromPubkey, toPubkey, lamports}) and the
\* instructions built inside transfer() and mintTo(): BigInt(lamports) throws
\* on a number that is no integer, and an amount below zero is either
\* refused by the encoder of the unsigned field or wrapped by it, as the
\* library build has it
BuildTransfer ==
  /\ Step = "buildTransfer"
  /\ IF ~InstructionAmount.ok THEN Catch(<<>>, "RangeError")
     ELSE IF InstructionAmount.neg
     THEN Catch(<<>>, "RangeError") \/ Done(<<>>)
     ELSE Done(<<>>)
  /\ UNCHANGED <<codecVars, envVars, ioVars, chainVars, _connection, payer>>

\* getLatestBlockhash: inside sendAndConfirmTransaction it anchors the
\* transaction about to be signed; in airdrop it is fetched after the request
\* and only watched by the confirmation
GetLatestBlockhash ==
  /\ Step = "getLatestBlockhash"
  /\ \/ /\ Done(<<Ev("getLatestBlockhash")>>)
        /\ IF script = "airdrop"
           THEN watchValid' = height + Window /\ UNCHANGED tx
           ELSE /\ tx' = [status |-> "built", lastValid |-> height + Window,
                          anchorBy |-> "script", err |-> "none",
                          ixs |-> Instructions(script), signers |-> {}]
                /\ UNCHANGED watchValid
     \/ /\ Catch(<<Ev("getLatestBlockhash")>>, "RateLimited")
        /\ UNCHANGED <<tx, watchValid>>
  /\ UNCHANGED <<codecVars, envVars, ioVars, height, waited, _connection, payer>>

\* a refused send made again
SendTransactionResending ==
  /\ Step = "sendTransaction"
  /\ \/ /\ SimulationError = "none"
        /\ Done(<<Ev("sendTransaction")>>)
        /\ tx' = [tx EXCEPT !.status = "inflight", !.signers = Signers(script)]
        /\ watchValid' = tx.lastValid
     \/ /\ trace' = Append(trace, Ev("sendTransaction"))
        /\ UNCHANGED <<pc, exitCode, lastErr, errMessage, tx, watchValid>>
  /\ UNCHANGED <<codecVars, envVars, ioVars, height, waited, _connection, payer>>

\* sendAndConfirmTransaction: the transaction is signed and sent once; the
\* confirmation then watches the transaction's own blockhash
SendTransaction ==
  /\ Step = "sendTransaction"
  /\ \/ /\ SimulationError = "none"
        /\ Done(<<Ev("sendTransaction")>>)
        /\ tx' = [tx EXCEPT !.status = "inflight", !.signers = Signers(script)]
        /\ watchValid' = tx.lastValid
     \/ /\ \E e \in SendRefusals : Catch(<<Ev("sendTransaction")>>, e)
        /\ UNCHANGED <<tx, watchValid>>
  /\ UNCHANGED <<codecVars, envVars, ioVars, height, waited, _connection, payer>>

\* sendAndConfirmTransaction: the wait ends with the status, which throws
\* when it carries an error, or with the expiry of the blockhash
AwaitConfirmation ==
  /\ Step = "awaitConfirmation"
  /\ \/ /\ tx.status = "ok"
        /\ Done(<<Ev("confirmTransaction")>>)
     \/ /\ tx.status = "err"
        /\ Catch(<<[op |-> "confirmTransaction", err |-> tx.err]>>, tx.err)
     \/ /\ tx.status = "inflight"
        /\ DeadlineReached
        /\ Catch(<<Ev("confirmTransaction")>>, "BlockheightExceeded")
  /\ UNCHANGED <<codecVars, envVars, ioVars, chainVars, _connection, payer>>

\* the longest prefix of decimal digits
RECURSIVE digitPrefix(_)
digitPrefix(chars) ==
  IF chars = <<>> \/ (\A i \in 1..Len(DigitChars) : DigitChars[i] # Head(chars))
  THEN <<>>
  ELSE <<Head(chars)>> \o digitPrefix(Tail(chars))

\* the characters without leading blanks
RECURSIVE trimStart(_)
trimStart(chars) ==
  IF chars # <<>> /\ Head(chars) = " " THEN trimStart(Tail(chars)) ELSE chars

\* the digits without leading zeros, one zero kept
RECURSIVE dropZeros(_)
dropZeros(ds) ==
  IF Len(ds) > 1 /\ Head(ds) = "0" THEN dropZeros(Tail(ds)) ELSE ds

\* parseInt(str, 10): blanks are skipped, a sign is read, and the number is
\* the longest run of digits that follows; NaN when there is none
parseInt(str) ==
  LET s    == trimStart(str)
      sign == s # <<>> /\ Head(s) \in {"+", "-"}
      ds   == digitPrefix(IF sign THEN Tail(s) ELSE s)
  IN  IF ds = <<>> THEN [nan |-> TRUE, neg |-> FALSE, digits |-> <<>>]
      ELSE [nan |-> FALSE, neg |-> sign /\ Head(s) = "-", digits |-> dropZeros(ds)]

\* Number.prototype.toString of an integer or NaN
numberToString(n) ==
  IF n.nan THEN "NaN"
  ELSE (IF n.neg /\ n.digits # <<"0">> THEN "-" ELSE "") \o Join(n.digits)

\* const slippageBps = parseInt(slippageStr || "50", 10)
slippageBps == parseInt(IF slippageStr = <<>> THEN <<"5", "0">> ELSE slippageStr)

\* the parameters set on quoteUrl; the mints are the first two arguments
quoteUrl ==
  [ url         |-> JUPITER_API_URL \o "/quote",
    inputMint   |-> "inputMint",
    outputMint  |-> "outputMint",
    amount      |-> BigIntToString(rawAmount),
    slippageBps |-> numberToString(slippageBps) ]

\* the quote parsed from the response of the quote request of this run
quote == http[1].body

\* one request and its response: a rejected fetch has no response
Exchange(req, ok, body) == [req |-> req, ok |-> ok, body |-> body]

\* a non-OK response of the quote request taken for a quote
FetchQuoteIgnoringStatus ==
  /\ Step = "fetchQuote"
  /\ \E ok \in BOOLEAN : \E body \in ErrorBodies :
       /\ http' = Append(http, Exchange(quoteUrl, ok, body))
       /\ Done(<<Ev("fetchQuote"), Ev("print")>>)
  /\ UNCHANGED <<codecVars, envVars, chainVars, _connection, payer, connections, returned, held>>

\* const quoteRes = await fetch(quoteUrl.toString());  the aggregator
\* quotes amounts that are not below zero
\* if (!quoteRes.ok) throw new Error(`Jupiter quote failed: ${await quoteRes.text()}`);
\* const quote = await quoteRes.json(); console.log(`Quote received ...`)
FetchQuote ==
  /\ Step = "fetchQuote"
  /\ \/ \E out \in OutAmounts :
          /\ ~rawAmount.neg
          /\ http' = Append(http, Exchange(quoteUrl, TRUE,
                        [ inputMint  |-> quoteUrl.inputMint,
                          outputMint |-> quoteUrl.outputMint,
                          inAmount   |-> quoteUrl.amount,
                          outAmount  |-> out ]))
          /\ Done(<<Ev("fetchQuote"), Ev("print")>>)
     \/ \E body \in ErrorBodies :
          /\ http' = Append(http, Exchange(quoteUrl, FALSE, body))
          /\ Catch(<<Ev("fetchQuote")>>, "Jupiter quote failed: " \o body)
     \/ /\ http' = Append(http, Exchange(quoteUrl, FALSE, "none"))
        /\ Catch(<<Ev("fetchQuote")>>, "fetch failed")
  /\ UNCHANGED <<codecVars, envVars, chainVars, _connection, payer, connections, returned, held>>

\* a build request made from the arguments again, not from the quote
swapBodyRequoted ==
  [ url              |-> JUPITER_API_URL \o "/swap",
    quoteResponse    |-> [quote EXCEPT !.inAmount = <<"0">>],
    userPublicKey    |-> payer,
    wrapAndUnwrapSol |-> TRUE ]

\* body: JSON.stringify({quoteResponse: quote, userPublicKey:
\* payer.publicKey.toBase58(), wrapAndUnwrapSol: true})
swapBody ==
  [ url              |-> JUPITER_API_URL \o "/swap",
    quoteResponse    |-> quote,
    userPublicKey    |-> payer,
    wrapAndUnwrapSol |-> TRUE ]

\* const swapRes = await fetch(`${JUPITER_API_URL}/swap`, ...);
\* if (!swapRes.ok) throw new Error(`Jupiter swap failed: ${await swapRes.text()}`):
\* the transaction comes built, under a blockhash the aggregator chose
FetchSwap ==
  /\ Step = "fetchSwap"
  /\ \/ /\ http' = Append(http, Exchange(swapBody, TRUE, "swapTransaction"))
        /\ Done(<<Ev("fetchSwap")>>)
        /\ \E r \in 0..Window :
             tx' = [status |-> "built", lastValid |-> height + r,
                    anchorBy |-> "aggregator", err |-> "none",
                    ixs |-> Instructions(script), signers |-> {}]
     \/ /\ \E body \in ErrorBodies :
             /\ http' = Append(http, Exchange(swapBody, FALSE, body))
             /\ Catch(<<Ev("fetchSwap")>>, "Jupiter swap failed: " \o body)
        /\ UNCHANGED tx
     \/ /\ http' = Append(http, Exchange(swapBody, FALSE, "none"))
        /\ Catch(<<Ev("fetchSwap")>>, "fetch failed")
        /\ UNCHANGED tx
  /\ UNCHANGED <<codecVars, envVars, height, waited, watchValid, _connection, payer, connections, returned, held>>

\* the transaction of the aggregator decoded and left without a signature
DeserializeOnly ==
  /\ Step = "deserializeSign"
  /\ Done(<<>>)
  /\ UNCHANGED <<codecVars, envVars, ioVars, chainVars, _connection, payer>>

\* VersionedTransaction.deserialize(txBuf); tx.sign([payer])
DeserializeSign ==
  /\ Step = "deserializeSign"
  /\ tx' = [tx EXCEPT !.status = "signed", !.signers = Signers(script)]
  /\ Done(<<>>)
  /\ UNCHANGED <<codecVars, envVars, ioVars, height, waited, watchValid, _connection, payer>>

\* connection.sendRawTransaction(tx.serialize(), {skipPreflight: false,
\* maxRetries: 3}): one send by the script
SendRawTransaction ==
  /\ Step = "sendRawTransaction"
  /\ \/ /\ Done(<<Ev("sendRawTransaction")>>)
        /\ tx' = [tx EXCEPT !.status = "inflight"]
     \/ /\ \E e \in SendErrors : Catch(<<Ev("sendRawTransaction")>>, e)
        /\ UNCHANGED tx
  /\ UNCHANGED <<codecVars, envVars, ioVars, height, waited, watchValid, _connection, payer>>

\* await connection.confirmTransaction(sig, "confirmed"): the wait ends with
\* the status, whose error nobody reads, or with the timeout
ConfirmLegacy ==
  /\ Step = "confirmLegacy"
  /\ \/ /\ tx.status \in {"ok", "err"}
        /\ Done(<<[op |-> "confirmTransaction", err |-> tx.err]>>)
     \/ /\ tx.status = "inflight"
        /\ DeadlineReached
        /\ Catch(<<Ev("confirmTransaction")>>, "ConfirmTimeout")
  /\ UNCHANGED <<codecVars, envVars, ioVars, chainVars, _connection, payer>>

\* const sig = await connection.requestAirdrop(address, lamports): the faucet
\* builds, signs and sends the transaction
RequestAirdrop ==
  /\ Step = "requestAirdrop"
  /\ \/ /\ Done(<<Ev("requestAirdrop"), Ev("print")>>)
        /\ tx' = [status |-> "inflight", lastValid |-> height + Window,
                  anchorBy |-> "faucet", err |-> "none",
                  ixs |-> Instructions(script), signers |-> {"faucet"}]
     \/ /\ Catch(<<Ev("requestAirdrop")>>, "RateLimited")
        /\ UNCHANGED tx
  /\ UNCHANGED <<codecVars, envVars, ioVars, height, waited, watchValid, _connection, payer>>

\* await connection.confirmTransaction({signature, blockhash,
\* lastValidBlockHeight}, "confirmed"): the wait ends with the status, whose
\* error nobody reads, or with the expiry of the blockhash just fetched
ConfirmWithAnchor ==
  /\ Step = "confirmWithAnchor"
  /\ \/ /\ tx.status \in {"ok", "err"}
        /\ Done(<<[op |-> "confirmTransaction", err |-> tx.err]>>)
     \/ /\ tx.status = "inflight"
        /\ DeadlineReached
        /\ Catch(<<Ev("confirmTransaction")>>, "BlockheightExceeded")
  /\ UNCHANGED <<codecVars, envVars, ioVars, chainVars, _connection, payer>>

\* await connection.getBalance(address)
GetBalance ==
  /\ Step = "getBalance"
  /\ \/ Done(<<Ev("getBalance")>>)
     \/ Catch(<<Ev("getBalance")>>, "Timeout")
  /\ UNCHANGED <<codecVars, envVars, ioVars, chainVars, _connection, payer>>

\* await connection.getParsedTokenAccountsByOwner(...) and the listing printed
GetTokenAccounts ==
  /\ Step = "getTokenAccounts"
  /\ \/ Done(<<Ev("getTokenAccounts"), Ev("print")>>)
     \/ Catch(<<Ev("getTokenAccounts")>>, "Timeout")
  /\ UNCHANGED <<codecVars, envVars, ioVars, chainVars, _connection, payer>>

\* if (!fs.existsSync(soBinaryPath)) { console.error(`Binary not found: ...`);
\* process.exit(1); }
CheckBinary ==
  /\ Step = "checkBinary"
  /\ IF soBinary = "missing" THEN Exit1(<<Ev("printError")>>) ELSE Done(<<>>)
  /\ UNCHANGED <<codecVars, envVars, ioVars, chainVars, _connection, payer>>

\* fs.readFileSync(programKeypairPath) and Keypair.fromSecretKey(...): either
\* throws on a file that is not there or holds no key
ReadProgramKeypair ==
  /\ Step = "readProgramKeypair"
  /\ CASE programKeypair = "missing" -> Catch(<<>>, "ENOENT: no such file or directory")
       [] programKeypair = "corrupt" -> Catch(<<>>, "bad secret key size")
       [] OTHER -> Done(<<>>)
  /\ UNCHANGED <<codecVars, envVars, ioVars, chainVars, _connection, payer>>

\* try { execSync(cmd, { stdio: "inherit" }); ... } catch { console.error(
\* "\nDeploy failed. ..."); process.exit(1); }: execSync throws when the
\* command does not exit with 0
ExecSync ==
  /\ Step = "execSync"
  /\ \/ Done(<<Ev("execSync")>>)
     \/ Exit1(<<[op |-> "execSync", err |-> "CommandFailed"], Ev("printError")>>)
  /\ UNCHANGED <<codecVars, envVars, ioVars, chainVars, _connection, payer>>

\* a lookup that finds nothing made again
GetParsedTransactionRetrying ==
  /\ Step = "getParsedTransaction"
  /\ \/ Done(<<Ev("getParsedTransaction"), Ev("print")>>)
     \/ /\ trace' = Append(trace, Ev("getParsedTransaction"))
        /\ UNCHANGED <<pc, exitCode, lastErr, errMessage>>
     \/ \E e \in {"Timeout", "InvalidParam"} :
          Catch(<<Ev("getParsedTransaction")>>, e)
  /\ UNCHANGED <<codecVars, envVars, ioVars, chainVars, _connection, payer>>

\* const tx = await connection.getParsedTransaction(signature, ...);
\* if (!tx) { console.error("Transaction not found. ..."); process.exit(1); }
\* and the transaction printed
GetParsedTransaction ==
  /\ Step = "getParsedTransaction"
  /\ \/ Done(<<Ev("getParsedTransaction"), Ev("print")>>)
     \/ Exit1(<<Ev("getParsedTransaction"), Ev("printNotFound")>>)
     \/ \E e \in {"Timeout", "InvalidParam"} :
          Catch(<<Ev("getParsedTransaction")>>, e)
  /\ UNCHANGED <<codecVars, envVars, ioVars, chainVars, _connection, payer>>

\* console.log(`✓ ... confirmed ...`)
PrintSuccess ==
  /\ Step = "printSuccess"
  /\ Done(<<Ev("printSuccess")>>)
  /\ UNCHANGED <<codecVars, envVars, ioVars, chainVars, _connection, payer>>

\* main() returns and the process ends with code 0
Finish ==
  /\ exitCode = "running"
  /\ script \in Scripts
  /\ pc = Len(Program(script)) + 1
  /\ exitCode' = "0"
  /\ UNCHANGED <<codecVars, envVars, ioVars, chainVars, pc, _connection, payer, trace, lastErr, errMessage>>

\* the network executes the transaction while its blockhash is valid
Land ==
  /\ exitCode = "running"
  /\ tx.status = "inflight"
  /\ height <= tx.lastValid
  /\ \E e \in {"none"} \cup ExecErrors :
       tx' = [tx EXCEPT !.status = IF e = "none" THEN "ok" ELSE "err", !.err = e]
  /\ UNCHANGED <<codecVars, envVars, ioVars, runVars, height, waited, watchValid>>

\* a block passes while a transaction is in flight; a confirmation gives up
\* as soon as its deadline is reached
Tick ==
  /\ exitCode = "running"
  /\ tx.status = "inflight"
  /\ IF Step \in ConfirmSteps THEN ~DeadlineReached ELSE height < MaxDelay
  /\ height' = height + 1
  /\ waited' = IF Step \in ConfirmSteps THEN waited + 1 ELSE waited
  /\ UNCHANGED <<codecVars, envVars, ioVars, runVars, tx, watchValid>>

Next ==
  \/ CheckNetwork \/ CheckArgs \/ GetConnection \/ ResolveKeypair
  \/ ResolveAddress \/ NewPublicKey \/ ParseAmount \/ GetMint
  \/ ToTokenAmount \/ PrintSummary \/ EnsureATA \/ GetRentExemption
  \/ BuildTransfer \/ GetLatestBlockhash \/ SendTransaction \/ AwaitConfirmation
  \/ FetchQuote \/ FetchSwap \/ DeserializeSign \/ SendRawTransaction
  \/ ConfirmLegacy \/ RequestAirdrop \/ ConfirmWithAnchor \/ GetBalance
  \/ GetTokenAccounts \/ CheckBinary \/ ReadProgramKeypair \/ ExecSync
  \/ GetParsedTransaction \/ PrintSuccess \/ Finish \/ Land \/ Tick

Spec == Init /\ [][Next]_vars

(***************************************************************************)
(* The connection module on its own: one process that calls getConnection  *)
(* and createConnection in any order, MaxCalls times at most.              *)
(***************************************************************************)
MaxCalls == 5

\* endpoints and commitments createConnection is called with
UrlsTried == {RPC_URL, "https://rpc.other.example"}

CommitmentsTried == {COMMITMENT, "finalized"}

InitConn ==
  /\ script = "none"
  /\ SOLANA_NETWORK \in {"unset", "devnet", "testnet", "mainnet-beta"}
  /\ SOLANA_RPC_URL \in {"unset", "https://rpc.custom.example"}
  /\ WALLET_PRIVATE_KEY = "unset"
  /\ keyFile = "missing"
  /\ keyText = <<>>
  /\ jsonErrorStyle = "position"
  /\ soBinary = "missing"
  /\ programKeypair = "missing"
  /\ argc = 0
  /\ addrOk = TRUE
  /\ mintAuthority = "payer"
  /\ slippageStr = <<>>
  /\ pc = 0
  /\ _connection = null
  /\ connections = <<>>
  /\ returned = <<>>
  /\ http = <<>>
  /\ held = <<>>
  /\ payer = "unresolved"
  /\ trace = <<>>
  /\ exitCode = "running"
  /\ lastErr = "none"
  /\ errMessage = "none"
  /\ tx = NoTx
  /\ height = 0
  /\ waited = 0
  /\ watchValid = 0
  /\ amountStr = None
  /\ decimals = 0
  /\ powUp = FALSE
  /\ amount = None
  /\ rawAmount = None
  /\ shown = <<>>
  /\ cstep = "connection"

CallGetConnection ==
  /\ cstep = "connection"
  /\ Len(returned) < MaxCalls
  /\ getConnection
  /\ UNCHANGED <<codecVars, envVars, chainVars, pc, payer, trace, exitCode, lastErr, errMessage, http, held>>

CallCreateConnection ==
  /\ cstep = "connection"
  /\ Len(returned) < MaxCalls
  /\ \E url \in UrlsTried : \E commitment \in CommitmentsTried :
       createConnection(url, commitment)
  /\ UNCHANGED <<codecVars, envVars, chainVars, pc, payer, trace, exitCode, lastErr, errMessage, http, held>>

NextConn == CallGetConnection \/ CallCreateConnection

SpecConn == InitConn /\ [][NextConn]_vars

(***************************************************************************)
(* Several tasks of one process, each calling getConnection while the      *)
(* others are under way.  getConnection awaits nothing, so a call runs     *)
(* from its test of _connection to its return before another task is       *)
(* scheduled: the tasks interleave between calls, in any order.            *)
(***************************************************************************)
NTasks == 3

Tasks == 1..NTasks

InitTasks ==
  /\ script = "none"
  /\ SOLANA_NETWORK \in {"unset", "devnet", "testnet", "mainnet-beta"}
  /\ SOLANA_RPC_URL \in {"unset", "https://rpc.custom.example"}
  /\ WALLET_PRIVATE_KEY = "unset"
  /\ keyFile = "missing"
  /\ keyText = <<>>
  /\ jsonErrorStyle = "position"
  /\ soBinary = "missing"
  /\ programKeypair = "missing"
  /\ argc = 0
  /\ addrOk = TRUE
  /\ mintAuthority = "payer"
  /\ slippageStr = <<>>
  /\ pc = 0
  /\ _connection = null
  /\ connections = <<>>
  /\ returned = <<>>
  /\ http = <<>>
  /\ held = [t \in Tasks |-> null]
  /\ payer = "unresolved"
  /\ trace = <<>>
  /\ exitCode = "running"
  /\ lastErr = "none"
  /\ errMessage = "none"
  /\ tx = NoTx
  /\ height = 0
  /\ waited = 0
  /\ watchValid = 0
  /\ amountStr = None
  /\ decimals = 0
  /\ powUp = FALSE
  /\ amount = None
  /\ rawAmount = None
  /\ shown = <<>>
  /\ cstep = "tasks"

\* a task whose call constructs a connection of its own, as if it had
\* tested _connection before another task set it
TaskGetConnectionRacing(t) ==
  /\ cstep = "tasks"
  /\ Len(returned) < MaxCalls
  /\ getConnectionAlwaysNew
  /\ held' = [held EXCEPT ![t] = _connection']
  /\ UNCHANGED <<codecVars, envVars, chainVars, pc, payer, trace, exitCode, lastErr, errMessage, http>>

\* task t calls getConnection() and keeps what it returns
TaskGetConnection(t) ==
  /\ cstep = "tasks"
  /\ Len(returned) < MaxCalls
  /\ getConnection
  /\ held' = [held EXCEPT ![t] = _connection']
  /\ UNCHANGED <<codecVars, envVars, chainVars, pc, payer, trace, exitCode, lastErr, errMessage, http>>

NextTasks == \E t \in Tasks : TaskGetConnection(t)

SpecTasks == InitTasks /\ [][NextTasks]_vars

(***************************************************************************)
(* The amounts the claims speak of, computed exactly.                      *)
(***************************************************************************)
\* the literal is a decimal numeral
IsDecimal(s) == s.k = "dec"

\* the literal denotes a value below zero
IsNegative(s) ==
  \/ s.k = "inf" /\ s.neg
  \/ s.k = "dec" /\ s.neg /\ BFromDigits(s.ip \o s.fp) # <<>>

\* the literal written canonically: no leading zeros, no trailing fractional
\* zeros, no separator when the fraction is empty
Canonical(s) ==
  LET ip == StripLeadingZeros(DigitsToStr(s.ip))
      fp == StripTrailingZeros(DigitsToStr(s.fp))
  IN  IF fp = <<>> THEN ip ELSE ip \o <<".">> \o fp

\* raw div 10^d, then "." and the remainder at d digits without trailing zeros
ExactDisplay(raw, d) ==
  LET qr == <<BDivPow10(raw, d), BModPow10(raw, d)>>
      fp == StripTrailingZeros(padStart(MagToString(qr[2]), d, "0"))
  IN  IF qr[2] = <<>> THEN MagToString(qr[1])
      ELSE MagToString(qr[1]) \o <<".">> \o fp

(***************************************************************************)
(* Properties of the amount helpers, checked under SpecCodec.              *)
(***************************************************************************)
\* C6: for every non-negative decimal d with at most n fractional digits
\* and every decimals >= n, fromTokenAmount(toTokenAmount(d, decimals),
\* decimals) is d written canonically.
C6_RoundTripIsCanonical ==
  (cstep = "formatted" /\ IsDecimal(amountStr) /\ ~IsNegative(amountStr)
     /\ Len(amountStr.fp) <= decimals)
    => shown = Canonical(amountStr)

\* C7: toTokenAmount fails with an error for every negative, non-numeric or
\* non-finite input, and never returns a base-unit value for one.
C7_InvalidAmountFails ==
  (cstep = "converted" /\ amountStr # None
     /\ (IsNegative(amountStr) \/ amountStr.k \in {"text", "inf"}))
    => ~rawAmount.ok

\* C8: for every non-negative raw and every decimals, fromTokenAmount(raw,
\* decimals) is raw div 10^decimals, followed only when the remainder is not
\* zero by "." and the remainder at exactly `decimals` digits without its
\* trailing zeros.
C8_DisplayIsExactQuotient ==
  (cstep = "formatted" /\ ~rawAmount.neg)
    => shown = ExactDisplay(rawAmount.mag, decimals)

(***************************************************************************)
(* Properties of the scripts, checked under Spec.                          *)
(***************************************************************************)
\* positions in the trace of the sends of the run's transaction
SendIdx == {i \in 1..Len(trace) : trace[i].op \in SendOps}

C2_FreshAnchorBeforeEachSend ==
  /\ \A j \in SendIdx : j > 1 /\ trace[j - 1].op = "getLatestBlockhash"
  /\ \A i \in 1..Len(trace) : \A j \in SendIdx :
       ~(i < j /\ trace[i].err = "BlockheightExceeded")

\* C3: after a confirmation result that carries an error the run is a
\* failure: it prints no success line and does not exit with 0.
C3_ExecutionFailureIsSurfaced ==
  \A i \in 1..Len(trace) :
    (trace[i].op = "confirmTransaction" /\ trace[i].err # "none")
      => /\ \A j \in 1..Len(trace) : trace[j].op # "printSuccess"
         /\ exitCode # "0"

\* C4: the wait for a transaction neither confirmed nor rejected does not go
\* on past the validity window of the transaction's own blockhash.
C4_WaitBoundedByOwnAnchor ==
  (Step \in ConfirmSteps /\ tx.status = "inflight")
    => height <= tx.lastValid + 1

\* C5: on mainnet-beta the airdrop script exits with 1 at its first step,
\* with no connection made, no identity resolved and no network call.
C5_AirdropRejectsOnMainnet ==
  (script = "airdrop" /\ NETWORK = "mainnet-beta")
    => /\ pc = 1
       /\ exitCode \in {"running", "1"}
       /\ exitCode = "running" => trace = <<>>
       /\ _connection = null
       /\ payer = "unresolved"
       /\ tx = NoTx
       /\ \A i \in 1..Len(trace) : trace[i].op \notin NetworkOps \cup {"readKeyFile"}

\* the airdrop script has rejected a run with both arguments on mainnet-beta
C5_Witness ==
  /\ script = "airdrop"
  /\ NETWORK = "mainnet-beta"
  /\ argc = 2
  /\ exitCode = "1"

\* C9: with the environment secret present the identity is the one derived
\* from it; the key file is read and used only when the secret is absent.
C9_EnvSecretTakesPrecedence ==
  /\ (payer # "unresolved" /\ WALLET_PRIVATE_KEY \notin {"unset", "empty"})
       => payer = "envIdentity"
  /\ (payer = "fileIdentity" \/ \E i \in 1..Len(trace) : trace[i].op = "readKeyFile")
       => WALLET_PRIVATE_KEY \in {"unset", "empty"}

\* both sources hold a key and the identity has been resolved
C9_Witness ==
  /\ WALLET_PRIVATE_KEY = "valid"
  /\ keyFile = "valid"
  /\ payer = "envIdentity"

\* C10: when identity resolution fails the run has exited with 1, with no
\* network call made and no transaction built or sent.
C10_IdentityFailureStopsTheRun ==
  lastErr \in {"IdentityNotFound", "IdentityCorrupt"}
    => /\ exitCode = "1"
       /\ payer = "unresolved"
       /\ tx = NoTx
       /\ \A i \in 1..Len(trace) : trace[i].op \notin NetworkOps

\* the token transfer found a key file that holds no key
C10_Witness ==
  /\ script = "transferToken"
  /\ lastErr = "IdentityCorrupt"
  /\ keyFile = "corrupt"
  /\ exitCode = "1"

\* the requests of the run to the quote and to the build endpoint
QuoteIdx == {i \in 1..Len(http) : http[i].req.url = JUPITER_API_URL \o "/quote"}

SwapIdx == {i \in 1..Len(http) : http[i].req.url = JUPITER_API_URL \o "/swap"}

\* C12: the build request of the swap carries exactly the quote received
\* from the one quote request of the same run, so its amount and asset pair
\* are those of the quote; and the amount of the quote request, when it is
\* made, is the base-unit conversion of the amount argument at the decimals
\* read from the input mint.
C12_BuildRequestCarriesTheQuote ==
  /\ Cardinality(QuoteIdx) <= 1
  /\ \A i \in QuoteIdx :
       /\ i = 1
       /\ \E k \in 1..Len(trace) : trace[k].op = "getMint"
       /\ decimals \in MintDecimals
       /\ http[i].req.amount = BigIntToString(rawAmount)
       /\ Len(http) = 1 =>
            rawAmount = toTokenAmount(parseFloat(amountStr), decimals, powUp)
       /\ http[i].req.inputMint = "inputMint"
       /\ http[i].req.outputMint = "outputMint"
  /\ \A j \in SwapIdx :
       /\ j = 2
       /\ 1 \in QuoteIdx
       /\ http[1].ok
       /\ http[j].req.quoteResponse = http[1].body
       /\ http[j].req.quoteResponse.inAmount = http[1].body.inAmount
       /\ http[j].req.quoteResponse.inputMint = http[1].body.inputMint
       /\ http[j].req.quoteResponse.outputMint = http[1].body.outputMint

\* the build request of a swap of 1.5 has been answered
C12_Witness ==
  /\ script = "swap"
  /\ amountStr = Lit(FALSE, <<1>>, <<5>>)
  /\ Len(http) = 2
  /\ http[2].ok
  /\ http[1].body.outAmount = "outAmount2"

\* C13: after a non-OK response of the quote or of the build request the
\* swap has failed with an error that carries the response body and exited
\* with 1; the request is not repeated, nothing is signed or sent, and a
\* failed quote request is followed by no build request.
C13_NonOkResponseFailsTheRun ==
  \A i \in 1..Len(http) :
    (~http[i].ok /\ http[i].body # "none") =>
      /\ i = Len(http)
      /\ exitCode = "1"
      /\ lastErr = (IF i \in QuoteIdx THEN "Jupiter quote failed: "
                    ELSE "Jupiter swap failed: ") \o http[i].body
      /\ trace[Len(trace)] = [op |-> "printFailure", err |-> lastErr]
      /\ tx = NoTx
      /\ \A k \in 1..Len(trace) : trace[k].op \notin SendOps
      /\ Cardinality(QuoteIdx) <= 1
      /\ Cardinality(SwapIdx) <= 1
      /\ i \in QuoteIdx => SwapIdx = {}

\* the build request got a non-OK response after a quote was received
C13_Witness ==
  /\ Len(http) = 2
  /\ http[1].ok
  /\ ~http[2].ok
  /\ http[2].body = "Could not find any route"
  /\ exitCode = "1"

\* the runs of the deploy utility
ExecIdx == {i \in 1..Len(trace) : trace[i].op = "execSync"}

\* C14: the deploy script runs the utility at most once and only with the
\* binary found to exist; a missing binary ends the run with 1 at the check,
\* the utility not run; the run ends with 0 only after the utility exited
\* with success, and with 1 whenever it did not.
C14_DeployRunsUtilityOnceAfterCheck ==
  script = "deploy" =>
    /\ Cardinality(ExecIdx) <= 1
    /\ ExecIdx # {} => soBinary = "present"
    /\ soBinary = "missing" => (ExecIdx = {} /\ pc <= 2 /\ exitCode # "0")
    /\ exitCode = "0" => \E i \in ExecIdx : trace[i].err = "none"
    /\ exitCode = "1" => \A i \in ExecIdx : trace[i].err # "none"
    /\ (\E i \in ExecIdx : trace[i].err # "none") => exitCode = "1"

\* the utility was run on a binary that exists, and failed
C14_Witness ==
  /\ script = "deploy"
  /\ soBinary = "present"
  /\ \E i \in ExecIdx : trace[i].err = "CommandFailed"
  /\ exitCode = "1"

\* the lookups of the transaction
LookupIdx == {i \in 1..Len(trace) : trace[i].op = "getParsedTransaction"}

\* C20: fetch-tx looks the signature up once at most; when nothing is found
\* it says so and exits with 1 after that one lookup; and on every path it
\* sends no transaction and resolves no identity.
C20_FetchTxIsReadOnly ==
  script = "fetchTx" =>
    /\ Cardinality(LookupIdx) <= 1
    /\ (\E i \in 1..Len(trace) : trace[i].op = "printNotFound") =>
         /\ exitCode = "1"
         /\ Cardinality(LookupIdx) = 1
         /\ trace[Len(trace)].op = "printNotFound"
         /\ trace[Len(trace) - 1].op = "getParsedTransaction"
    /\ (exitCode = "0" \/ pc > Len(FetchTxProgram)) => Cardinality(LookupIdx) = 1
    /\ tx = NoTx
    /\ payer = "unresolved"
    /\ \A i \in 1..Len(trace) :
         trace[i].op \notin SendOps \cup {"sendCreateATA", "requestAirdrop", "readKeyFile"}

\* the lookup found nothing, with no wallet anywhere
C20_Witness ==
  /\ script = "fetchTx"
  /\ WALLET_PRIVATE_KEY = "unset"
  /\ keyFile = "missing"
  /\ exitCode = "1"
  /\ trace[Len(trace)].op = "printNotFound"

\* the lines a run that fails ends with
FailureLines == {"printFailure", "printUsage", "printError", "printNotFound"}

\* C15: a run ends with 0 only when its action succeeded, and with 1 only
\* after printing a failure line; no success line follows an error.
C15_ExitStatusTellsTheOutcome ==
  /\ exitCode = "0" =>
       /\ tx.status \in {"none", "ok"}
       /\ lastErr = "none"
       /\ \A i \in 1..Len(trace) : trace[i].err = "none"
  /\ exitCode = "1" => trace[Len(trace)].op \in FailureLines
  /\ \A i \in 1..Len(trace) : \A j \in 1..Len(trace) :
       (i < j /\ trace[i].err # "none") => trace[j].op # "printSuccess"

\* C17: with SOLANA_NETWORK not set the network is devnet, so that a run of
\* the airdrop script is not turned away by the mainnet check.
C17_DefaultNetworkIsDevnet ==
  (SOLANA_NETWORK = "unset" /\ (pc > 1 \/ exitCode # "running")) =>
    /\ NETWORK = "devnet"
    /\ script = "airdrop" => ~(pc = 1 /\ exitCode = "1")

\* C19: the balance query sends and signs nothing, and with an address
\* argument it resolves no identity, so no state of the wallet can fail it.
C19_BalanceQueryIsReadOnly ==
  script = "checkBalance" =>
    /\ tx = NoTx
    /\ \A i \in 1..Len(trace) :
         trace[i].op \notin SendOps \cup {"sendCreateATA", "requestAirdrop"}
    /\ argc >= 1 =>
         /\ payer = "unresolved"
         /\ \A i \in 1..Len(trace) : trace[i].op # "readKeyFile"
         /\ lastErr \notin {"IdentityNotFound", "IdentityCorrupt"}

\* the balance of a given address was listed with no wallet to be found
C19_Witness ==
  /\ script = "checkBalance"
  /\ argc >= 1
  /\ WALLET_PRIVATE_KEY = "unset"
  /\ keyFile = "missing"
  /\ exitCode = "0"
  /\ \E i \in 1..Len(trace) : trace[i].op = "getTokenAccounts"

\* the reads and the creation of a token account
TokenAccountOps == {"getAccountInfo", "sendCreateATA"}

\* C18: a token transfer is sent only after the recipient's token account
\* was resolved or created and, when it is sent, with the amount converted
\* at the decimals read from the mint; a native transfer touches no token account and sends
\* one transaction of one instruction.
C18_TransferResolvesAccountAndDecimals ==
  /\ script = "transferToken" =>
       \A j \in SendIdx :
         /\ \E i \in 1..(j - 1) : trace[i].op = "getAccountInfo"
         /\ \E i \in 1..(j - 1) : trace[i].op = "getMint"
         /\ decimals \in MintDecimals
         /\ (j = Len(trace) /\ tx.status = "inflight" /\ height = 0) =>
              rawAmount = toTokenAmount(parseFloat(amountStr), decimals, powUp)
         /\ tx.ixs = <<"Token.transfer">>
  /\ script = "transferSol" =>
       /\ \A i \in 1..Len(trace) : trace[i].op \notin TokenAccountOps \cup {"getMint"}
       /\ Cardinality(SendIdx) <= 1
       /\ exitCode = "0" => Cardinality(SendIdx) = 1
       /\ SendIdx # {} => tx.ixs = <<"SystemProgram.transfer">>

\* a token transfer was sent after the recipient's account was created
C18_Witness ==
  /\ script = "transferToken"
  /\ SendIdx # {}
  /\ \E i \in 1..Len(trace) : trace[i].op = "sendCreateATA"
  /\ exitCode = "0"

\* C16: what a run prints does not depend on the secret material: when the
\* identity cannot be loaded, the message printed is the one that would be
\* printed for any other undecodable content of the key file.
C16_OutputIndependentOfSecret ==
  (lastErr \in {"IdentityNotFound", "IdentityCorrupt"}
     /\ WALLET_PRIVATE_KEY \in {"unset", "empty"} /\ keyFile = "corrupt")
    => \A raw \in UndecodableTexts :
         errMessage = fileErrorMessage(keyFile, raw, jsonErrorStyle)

(***************************************************************************)
(* Properties of the connection module, checked under SpecConn.            *)
(***************************************************************************)
\* the calls of getConnection so far
GetIdx == {i \in 1..Len(returned) : returned[i].fn = "getConnection"}

\* C11: over any sequence of getConnection calls the shared connection is
\* constructed exactly once, by the first call, from RPC_URL and COMMITMENT;
\* every call returns that same object; and once set, _connection is never
\* replaced or reset.
C11_SharedConnectionMadeOnce ==
  /\ [](/\ \A i \in GetIdx : returned[i].fresh <=> (\A j \in GetIdx : i <= j)
        /\ \A i \in GetIdx :
             /\ returned[i].ref = _connection
             /\ _connection # null
             /\ connections[_connection] = [rpcUrl |-> RPC_URL, commitment |-> COMMITMENT]
        /\ GetIdx = {} => _connection = null)
  /\ [][_connection # null => _connection' = _connection]_vars

\* getConnection has been called three times, with createConnection called
\* in between
C11_Witness ==
  /\ Cardinality(GetIdx) = 3
  /\ \E i \in GetIdx : \E j \in GetIdx : \E k \in 1..Len(returned) :
       i < k /\ k < j /\ returned[k].fn = "createConnection"

(***************************************************************************)
(* Properties of mint-tokens and of the swap's quote request, under Spec.  *)
(***************************************************************************)
\* C21: mint-tokens makes no mint-authority check of its own: when the payer
\* is not the authority of the mint, the run fails only at the send, with the
\* network's rejection, which is a deterministic failure; the mint
\* instruction is sent at most once, is never accepted, and the run ends
\* with a non-zero status without sending again.
C21_NonAuthorityMintFailsAtTheNetwork ==
  (script = "mintTokens" /\ mintAuthority # "payer") =>
    /\ Cardinality(SendIdx) <= 1
    /\ exitCode # "0"
    /\ tx.status \notin {"inflight", "ok", "err"}
    /\ \A j \in SendIdx :
         /\ j = Len(trace) - 1
         /\ trace[Len(trace)] = [op |-> "printFailure", err |-> lastErr]
         /\ exitCode = "1"
         /\ lastErr \in Deterministic \cup Transient
    /\ lastErr = "CustomProgramError"
         => SendIdx # {} /\ lastErr \in Deterministic

\* a run of mint-tokens by a payer that is not the mint authority has sent
\* the instruction and ended with the network's rejection
C21_Witness ==
  /\ script = "mintTokens"
  /\ mintAuthority # "payer"
  /\ SendIdx # {}
  /\ lastErr = "CustomProgramError"
  /\ exitCode = "1"

\* C22: the quote request carries a slippage of exactly 50 when the
\* slippage argument is omitted, and exactly the supplied value when it is
\* given.
C22_QuoteCarriesTheSlippage ==
  (script = "swap" /\ http # <<>>) =>
    http[1].req.slippageBps =
      IF argc < MaxArgs THEN "50" ELSE Join(slippageStr)

(***************************************************************************)
(* The life of a transaction, under Spec.                                  *)
(***************************************************************************)
\* the terminal state the run has seen its transaction reach
Terminal ==
  CASE tx.status = "ok" -> "Confirmed"
    [] tx.status = "err" -> "Failed"
    [] tx.status = "inflight" /\ exitCode = "1"
         /\ lastErr \in {"BlockheightExceeded", "ConfirmTimeout"} -> "Expired"
    [] OTHER -> "none"

\* the steps of the life of a transaction: built, signed, submitted, then
\* confirmed or failed; sendAndConfirmTransaction signs and submits in one
\* call, and the faucet submits a transaction of its own making
Lifecycle ==
  { <<"none", "built">>, <<"built", "signed">>, <<"signed", "inflight">>,
    <<"built", "inflight">>, <<"none", "inflight">>,
    <<"inflight", "ok">>, <<"inflight", "err">> }

\* the calls that put a transaction on the network
SubmitOps == SendOps \cup {"sendCreateATA", "requestAirdrop"}

C24_SummaryBeforeFirstSubmission ==
  \A j \in 1..Len(trace) :
    trace[j].op \in SubmitOps
      => \E i \in 1..(j - 1) : trace[i].op = "printSummary"

\* an amount that is negative, not a number or not finite, or an address
\* that is malformed, given to a script that moves funds
InvalidInput ==
  /\ script \in {"transferToken", "mintTokens", "transferSol", "swap"}
  /\ argc >= RequiredArgs(script)
  /\ \/ ~addrOk
     \/ amountStr.k \in {"text", "inf"}
     \/ IsNegative(amountStr)

\* C25: given an invalid amount or a malformed address, transfer-token,
\* mint-tokens, transfer-sol and swap end with a non-zero status without
\* having submitted any transaction: no associated token account is created
\* before the input error is reported.
C25_InvalidInputSubmitsNothing ==
  InvalidInput =>
    /\ exitCode # "0"
    /\ \A j \in 1..Len(trace) : trace[j].op \notin SubmitOps

(***************************************************************************)
(* More properties of the connection module.                               *)
(***************************************************************************)
\* the calls of createConnection so far
CreateIdx == {i \in 1..Len(returned) : returned[i].fn = "createConnection"}

\* C26 (under SpecConn): createConnection always returns a new connection,
\* distinct from the shared one and from everything returned before, and
\* leaves the shared instance as it was: calls of createConnection between
\* calls of getConnection never change which instance getConnection returns
\* and never initialize the shared instance.
C26_CreateConnectionLeavesSharedAlone ==
  /\ [](/\ \A i \in CreateIdx :
             /\ returned[i].fresh
             /\ returned[i].ref # _connection
             /\ \A j \in 1..Len(returned) :
                  j # i => returned[j].ref # returned[i].ref
        /\ \A i \in GetIdx : \A j \in GetIdx :
             returned[i].ref = returned[j].ref)
  /\ [][(Len(returned') = Len(returned) + 1
          /\ returned'[Len(returned')].fn = "createConnection")
         => _connection' = _connection]_vars

\* createConnection was called before the shared connection existed and
\* again between two calls of getConnection, with another endpoint
C26_Witness ==
  /\ returned # <<>>
  /\ returned[1].fn = "createConnection"
  /\ \E i \in GetIdx : \E j \in GetIdx : \E k \in CreateIdx :
       /\ i < k
       /\ k < j
       /\ connections[returned[k].ref].rpcUrl # RPC_URL

\* C27 (under SpecTasks): when several tasks of one process call
\* getConnection before the shared connection exists, the initialization
\* happens once under every interleaving: all callers hold the same single
\* retained instance, and a connection constructed beside it is held by no
\* caller.
C27_ConcurrentCallersShareOneInstance ==
  /\ \A t \in DOMAIN held : held[t] # null => held[t] = _connection
  /\ Cardinality({i \in GetIdx : returned[i].fresh}) <= 1
  /\ \A c \in 1..Len(connections) :
       c # _connection => \A t \in DOMAIN held : held[t] # c

\* every task has called getConnection and holds a connection
C27_Witness ==
  /\ DOMAIN held # {}
  /\ \A t \in DOMAIN held : held[t] # null

(***************************************************************************)
(* Exactness of the amount helpers, checked under SpecCodec.               *)
(***************************************************************************)
\* the base units of the literal at d decimals: its digits followed by
\* zeros up to d fractional digits
ExactRaw(s, d) ==
  BFromDigits(s.ip \o s.fp \o [i \in 1..(d - Len(s.fp)) |-> 0])

\* C28: the conversions are exact for base-unit values above 2^53:
\* toTokenAmount returns the mathematically exact integer, and
\* fromTokenAmount divides by exactly 10^decimals for every non-negative
\* decimals, with no floating-point intermediate.
C28_ConversionsExactBeyondDoubles ==
  /\ (cstep = "converted" /\ amountStr # None /\ IsDecimal(amountStr)
        /\ ~IsNegative(amountStr) /\ Len(amountStr.fp) <= decimals
        /\ BCmp(ExactRaw(amountStr, decimals), BPow2(53)) > 0)
       => /\ rawAmount.ok
          /\ ~rawAmount.neg
          /\ rawAmount.mag = ExactRaw(amountStr, decimals)
  /\ (cstep = "formatted" /\ ~rawAmount.neg
        /\ BCmp(rawAmount.mag, BPow2(53)) > 0)
       => shown = ExactDisplay(rawAmount.mag, decimals)

(***************************************************************************)
(* The usage check, under Spec.                                            *)
(***************************************************************************)
\* the scripts that cannot do without positional arguments
ScriptsWithRequiredArgs ==
  { "transferSol", "transferToken", "mintTokens", "createTokenAccount",
    "swap", "deploy", "fetchTx" }

\* C29: a script with required positional arguments that is run without
\* one of them prints its usage line and ends with status 1, before it
\* makes a connection, resolves the identity, reads a file, or calls the
\* network or another program.
C29_MissingArgumentPrintsUsageFirst ==
  (script \in ScriptsWithRequiredArgs /\ argc < RequiredArgs(script)) =>
    /\ _connection = null
    /\ connections = <<>>
    /\ payer = "unresolved"
    /\ http = <<>>
    /\ tx = NoTx
    /\ exitCode \in {"running", "1"}
    /\ exitCode = "running" => trace = <<>> /\ pc = 1
    /\ exitCode = "1" => trace = <<Ev("printUsage")>> /\ lastErr = "none"

\* deploy run with one argument, where the binary and the key file are
\* there, has printed its usage line and ended with 1
C29_Witness ==
  /\ script = "deploy"
  /\ argc = 1
  /\ soBinary = "present"
  /\ programKeypair = "valid"
  /\ exitCode = "1"
  /\ trace = <<Ev("printUsage")>>

====
